---- MODULE Spec2Model ----
(***************************************************************************)
(* Vertical-motion model of a blimp: BlimpLift (lift physics) and          *)
(* BlimpMotionZ.simulate_motion (time-stepping loop).                      *)
(*                                                                         *)
(* The source computes in float64.  Here every real quantity is a scaled   *)
(* integer (fixed point, rounding toward minus infinity):                  *)
(*   time            ticks of 1/TicksPerSecond s                           *)
(*   altitude        micrometres                                           *)
(*   speed           micrometres per second                                *)
(*   acceleration    micrometres per second squared                        *)
(*   temperature     whole degrees Celsius; kelvin in 1/100 K              *)
(*   pressure        pascal                                                *)
(*   density         mg per cubic metre                                    *)
(*   volume          litres                                                *)
(*   mass            micrograms                                            *)
(*   force           nanonewtons                                           *)
(***************************************************************************)
EXTENDS Integers, Sequences, FiniteSets, TLC

\* ------------------------------------------------------------------------
\* Fixed-point arithmetic

MaxInt == 2 * (2^30 - 1) + 1

Abs(x) == IF x < 0 THEN -x ELSE x

\* <<q, r>> with a*b = q*c + r and 0 <= r < c, for 0 <= a < c and b >= 0,
\* computed without forming a*b when it would not fit a machine word.
RECURSIVE MulQR(_, _, _)
MulQR(a, b, c) ==
    IF a = 0 \/ b = 0 THEN <<0, 0>>
    ELSE IF a <= MaxInt \div b THEN <<(a * b) \div c, (a * b) % c>>
    ELSE LET h == MulQR(a, b \div 2, c)
             r == 2 * h[2] + (b % 2) * a
         IN  <<2 * h[1] + r \div c, r % c>>

\* floor(a*b/c) for c > 0: the product and quotient of two floats.
MulDiv(a, b, c) ==
    LET x == IF b < 0 THEN -a ELSE a
        y == Abs(b)
    IN  (x \div c) * y + MulQR(x % c, y, c)[1]

\* ------------------------------------------------------------------------
\* BlimpLift.get_pressure_at_altitude

P0 == 101325            \* Pa
M_e8 == 2896968         \* molar mass of air, kg/mol * 10^8
g_e5 == 980665          \* gravity, m/s^2 * 10^5
R0_e5 == 831446         \* gas constant * 10^5
T0_e2 == 28815          \* standard temperature, K * 100

ExpScale == 10^6
ExpTerms == 8

\* e^(x/ExpScale) * ExpScale by its power series, ExpTerms terms after the 1.
RECURSIVE ExpSeries(_, _, _)
ExpSeries(x, term, n) ==
    IF n > ExpTerms \/ term = 0 THEN 0
    ELSE LET t == MulDiv(term, x, ExpScale * n)
         IN  t + ExpSeries(x, t, n + 1)

Exp(x) == ExpScale + ExpSeries(x, ExpScale, 1)

get_pressure_at_altitude(altitude) ==
    LET gM   == MulDiv(g_e5, M_e8, 1000000)      \* g*M * 10^7
        R0T0 == MulDiv(R0_e5, T0_e2, 1000)       \* R0*T0 * 10^4
        \* (-g*M*altitude)/(R0*T0), altitude in um, result * ExpScale
        x    == MulDiv(0 - altitude, gM, R0T0) \div 1000
    IN  MulDiv(P0, Exp(x), ExpScale)

\* ------------------------------------------------------------------------
\* BlimpLift.calculate_densities

R_e5 == 831446          \* gas constant * 10^5
MHe_e9 == 4002602       \* molar mass of helium, kg/mol * 10^9
Kelvin_e2 == 27315      \* 273.15 * 100

calculate_densities(temperature_c, altitude) ==
    LET T  == 100 * temperature_c + Kelvin_e2          \* K * 100
        P  == get_pressure_at_altitude(altitude)
        RT == MulDiv(R_e5, T, 10000)                   \* R*T * 10^3
        air_density    == MulDiv(MulDiv(P, M_e8, 10000), 100000, RT)
        helium_density == MulDiv(MulDiv(P, MHe_e9, 100000), 100000, RT)
    IN  <<air_density, helium_density>>

\* ------------------------------------------------------------------------
\* BlimpLift.calculate_lift

g_e2 == 981             \* 9.81 * 100

\* faulty variant: the bladder air counted as lift instead of weight
calculate_lift_AirSubtracted(self, temperature_c, altitude) ==
    LET d == calculate_densities(temperature_c, altitude)
        air_density    == d[1]
        helium_density == d[2]
        helium_mass == helium_density * self.main_helium_volume
        air_mass    == air_density * self.bladder_fill_volume
        buoyant_force == MulDiv(air_density * self.main_helium_volume, g_e2, 100)
        weight_force  == MulDiv(helium_mass - air_mass + self.payload_kg, g_e2, 100)
        net_lift == buoyant_force - weight_force
        lift_margin_kg == MulDiv(net_lift, 100, g_e2)
    IN  <<net_lift, lift_margin_kg>>

calculate_lift(self, temperature_c, altitude) ==
    LET d == calculate_densities(temperature_c, altitude)
        air_density    == d[1]
        helium_density == d[2]
        \* density [mg/m^3] * volume [L] / 1000 is mg, i.e. the product is ug
        helium_mass == helium_density * self.main_helium_volume
        air_mass    == air_density * self.bladder_fill_volume
        buoyant_force == MulDiv(air_density * self.main_helium_volume, g_e2, 100)
        weight_force  == MulDiv(helium_mass + air_mass + self.payload_kg, g_e2, 100)
        net_lift == buoyant_force - weight_force
        lift_margin_kg == MulDiv(net_lift, 100, g_e2)
    IN  <<net_lift, lift_margin_kg>>

\* ------------------------------------------------------------------------
\* Inputs

TicksPerSecond == 10    \* one tick is 0.1 s, the default dt
DefaultDt == 1          \* dt=0.1, in ticks
DefaultChamberSize == 14

MaxTotalTime == 3       \* ticks
MaxDt == 2              \* ticks

ExampleTotalTime == 10 * TicksPerSecond

PayloadGrams == {52, 60}
HeliumLiters == {50}
ChamberSizes == {DefaultChamberSize}
FillVolumes  == {0 - 1, 0, DefaultChamberSize, DefaultChamberSize + 1}

TemperaturesC == {0 - 50, 15, 40}
AltitudesUm   == {0, 10^9}

Row(a, t) == [altitude |-> a, temperature |-> t]

\* The table read from the CSV: rows ordered by ascending altitude threshold.
SingleRow == << Row(0, 15) >>

\* Thresholds of 0.5 mm and 1 mm: both are passed within the first steps.
SampleTables ==
    { << >>,
      SingleRow,
      << Row(0, 15), Row(500, 40), Row(1000, 0 - 50) >> }

\* <<table, total_time, dt>> of the simulate_motion calls made: short runs on
\* every table, and the documented run of 10 s at the default dt.
SimulateCalls ==
    (SampleTables \X (0 .. MaxTotalTime) \X (1 .. MaxDt))
        \cup {<<SingleRow, ExampleTotalTime, DefaultDt>>}

\* ------------------------------------------------------------------------
\* State

VARIABLES
    pc,                  \* "new", "failed", "idle", "loop"
    ctor_args,           \* << >> or <<arguments of the constructor call>>
    vehicle,             \* << >> or <<self>>: the constructed object
    raised,              \* "none" or the exception the last call raised
    ret,                 \* what the last completed call returned
    sim_args,            \* arguments of the simulate_motion call in progress
    altitudes, temperatures, time_points,
    position, speed, altitude_index,
    position_history, speed_history, acceleration_history, time_history,
    k,                   \* cursor of `for t in time_points`, 1-based
    first,               \* << >> or <<arguments and result of the first run>>
    completed_runs       \* 0, 1, or 2 for "two or more"

config == <<ctor_args, vehicle>>
locals == <<sim_args, altitudes, temperatures, time_points, position, speed,
            altitude_index, position_history, speed_history,
            acceleration_history, time_history, k>>
vars == <<pc, raised, ret, config, locals, first, completed_runs>>

NoRet == [op |-> "none"]

NoLocals ==
    /\ sim_args = << >>
    /\ altitudes = << >> /\ temperatures = << >> /\ time_points = << >>
    /\ position = 0 /\ speed = 0 /\ altitude_index = 0
    /\ position_history = << >> /\ speed_history = << >>
    /\ acceleration_history = << >> /\ time_history = << >>
    /\ k = 0

Init ==
    /\ pc = "new"
    /\ ctor_args = << >>
    /\ vehicle = << >>
    /\ raised = "none"
    /\ ret = NoRet
    /\ NoLocals
    /\ first = << >>
    /\ completed_runs = 0

\* ------------------------------------------------------------------------
\* BlimpLift.__init__ (BlimpMotionZ.__init__ only forwards to it)

\* faulty variant: the upper bound taken as exclusive
ValidFillExclusive(bladder_fill_volume, VARIABLE_CHAMBER_SIZE) ==
    0 <= bladder_fill_volume /\ bladder_fill_volume < VARIABLE_CHAMBER_SIZE

\* line 22
ValidFill(bladder_fill_volume, VARIABLE_CHAMBER_SIZE) ==
    0 <= bladder_fill_volume /\ bladder_fill_volume <= VARIABLE_CHAMBER_SIZE

Construct(payload_grams, helium_liters, bladder_fill_volume, VARIABLE_CHAMBER_SIZE) ==
    /\ pc = "new"
    /\ ctor_args' = << [payload_grams |-> payload_grams,
                        helium_liters |-> helium_liters,
                        bladder_fill_volume |-> bladder_fill_volume,
                        VARIABLE_CHAMBER_SIZE |-> VARIABLE_CHAMBER_SIZE] >>
    /\ IF ValidFill(bladder_fill_volume, VARIABLE_CHAMBER_SIZE)
       THEN /\ vehicle' = << [VARIABLE_CHAMBER_SIZE |-> VARIABLE_CHAMBER_SIZE,
                              payload_kg |-> payload_grams * 10^6,     \* ug
                              main_helium_volume |-> helium_liters,
                              bladder_fill_volume |-> bladder_fill_volume] >>
            /\ pc' = "idle"
            /\ raised' = "none"
       ELSE /\ vehicle' = << >>
            /\ pc' = "failed"
            /\ raised' = "ValueError"
    /\ UNCHANGED <<ret, locals, first, completed_runs>>

\* ------------------------------------------------------------------------
\* Calls of the three physics methods on the constructed object

CallPressure(altitude) ==
    /\ pc = "idle"
    /\ ret' = [op |-> "get_pressure_at_altitude", altitude |-> altitude,
               value |-> get_pressure_at_altitude(altitude)]
    /\ raised' = "none"
    /\ UNCHANGED <<pc, config, locals, first, completed_runs>>

CallDensities(temperature_c, altitude) ==
    /\ pc = "idle"
    /\ ret' = [op |-> "calculate_densities", temperature_c |-> temperature_c,
               altitude |-> altitude,
               value |-> calculate_densities(temperature_c, altitude)]
    /\ raised' = "none"
    /\ UNCHANGED <<pc, config, locals, first, completed_runs>>

\* faulty variant: the litres-to-m^3 conversion of line 64 done in place on self
CallLiftConvertsInPlace(temperature_c, altitude) ==
    /\ pc = "idle"
    /\ ret' = [op |-> "calculate_lift", temperature_c |-> temperature_c,
               altitude |-> altitude,
               value |-> calculate_lift(vehicle[1], temperature_c, altitude)]
    /\ raised' = "none"
    /\ vehicle' = << [vehicle[1] EXCEPT !.main_helium_volume = @ \div 1000] >>
    /\ UNCHANGED <<pc, ctor_args, locals, first, completed_runs>>

CallLift(temperature_c, altitude) ==
    /\ pc = "idle"
    /\ ret' = [op |-> "calculate_lift", temperature_c |-> temperature_c,
               altitude |-> altitude,
               value |-> calculate_lift(vehicle[1], temperature_c, altitude)]
    /\ raised' = "none"
    /\ UNCHANGED <<pc, config, locals, first, completed_runs>>

\* ------------------------------------------------------------------------
\* BlimpMotionZ.simulate_motion

\* faulty variant: floor((stop - start)/step) points
ArangeFloor(start, stop, step) ==
    LET n == IF stop > start THEN (stop - start) \div step ELSE 0
    IN  [j \in 1 .. n |-> start + (j - 1) * step]

\* faulty variant: the grid starts one step late
ArangeFromStep(start, stop, step) ==
    LET n == IF stop > start THEN (stop - start + step - 1) \div step ELSE 0
    IN  [j \in 1 .. n |-> start + j * step]

\* np.arange(start, stop, step) for step > 0
Arange(start, stop, step) ==
    LET n == IF stop > start THEN (stop - start + step - 1) \div step ELSE 0
    IN  [j \in 1 .. n |-> start + (j - 1) * step]

\* faulty variant: a run resumes from where the previous run ended
InitialPositionCarried ==
    IF ret.op = "simulate_motion" /\ Len(ret.value.position) > 0
    THEN ret.value.position[Len(ret.value.position)]
    ELSE 0

\* line 34
InitialPosition == 0

\* lines 26-41: read the table, build the time grid, initialise the locals
StartSimulate(table, total_time, dt) ==
    /\ pc = "idle"
    /\ pc' = "loop"
    /\ raised' = "none"
    /\ ret' = NoRet
    /\ sim_args' = << [table |-> table, total_time |-> total_time, dt |-> dt] >>
    /\ altitudes' = [j \in 1 .. Len(table) |-> table[j].altitude]
    /\ temperatures' = [j \in 1 .. Len(table) |-> table[j].temperature]
    /\ time_points' = Arange(0, total_time, dt)
    /\ position' = InitialPosition
    /\ speed' = 0
    /\ altitude_index' = 0
    /\ position_history' = << >>
    /\ speed_history' = << >>
    /\ acceleration_history' = << >>
    /\ time_history' = << >>
    /\ k' = 1
    /\ UNCHANGED <<config, first, completed_runs>>

\* The call is over: its locals are gone.
DropLocals ==
    /\ sim_args' = << >>
    /\ altitudes' = << >> /\ temperatures' = << >> /\ time_points' = << >>
    /\ position' = 0 /\ speed' = 0 /\ altitude_index' = 0
    /\ position_history' = << >> /\ speed_history' = << >>
    /\ acceleration_history' = << >> /\ time_history' = << >>
    /\ k' = 0

\* faulty variant: scan on while the next threshold is reached (while for if)
RECURSIVE LookupWhile(_, _, _)
LookupWhile(index, pos, alts) ==
    IF index < Len(alts) - 1 /\ pos >= alts[index + 2]
    THEN LookupWhile(index + 1, pos, alts)
    ELSE index

\* faulty variant: the cursor follows the position down as well
LookupRewinds(index, pos, alts) ==
    IF index < Len(alts) - 1 /\ pos >= alts[index + 2]
    THEN index + 1
    ELSE IF index > 0 /\ pos < alts[index + 1]
    THEN index - 1
    ELSE index

\* lines 45-46; altitude_index is 0-based as in the source, sequences 1-based
Lookup(index, pos, alts) ==
    IF index < Len(alts) - 1 /\ pos >= alts[index + 2]
    THEN index + 1
    ELSE index

\* lines 58-61
Acceleration(self, current_temperature, current_altitude) ==
    LET net_lift_force == calculate_lift(self, current_temperature, current_altitude)[1]
        helium_density == calculate_densities(current_temperature, current_altitude)[2]
        total_mass == self.payload_kg + self.main_helium_volume * helium_density
    IN  MulDiv(net_lift_force, 10^6, total_mass)

\* faulty variant: position advanced with the speed from before the update
EulerUpdatePositionFirst(spd, pos, acceleration, dt) ==
    <<spd + MulDiv(acceleration, dt, TicksPerSecond),
      pos + MulDiv(spd, dt, TicksPerSecond)>>

\* lines 64-65: <<speed, position>> after the update
EulerUpdate(spd, pos, acceleration, dt) ==
    LET new_speed == spd + MulDiv(acceleration, dt, TicksPerSecond)
    IN  <<new_speed, pos + MulDiv(new_speed, dt, TicksPerSecond)>>

\* faulty variant: the exception is swallowed and the points so far are returned
RaiseSwallowed ==
    /\ ret' = [op |-> "simulate_motion", args |-> sim_args[1],
               value |-> [time |-> time_history,
                          position |-> position_history,
                          speed |-> speed_history,
                          acceleration |-> acceleration_history]]
    /\ pc' = "idle"
    /\ DropLocals
    /\ UNCHANGED <<raised, config, first, completed_runs>>

\* line 48 on an index past the end: the exception leaves simulate_motion
RaiseIndexError ==
    /\ raised' = "IndexError"
    /\ pc' = "idle"
    /\ DropLocals
    /\ UNCHANGED <<ret, config, first, completed_runs>>

\* one iteration of the for loop, lines 43-71
Step ==
    /\ pc = "loop"
    /\ k <= Len(time_points)
    /\ LET t   == time_points[k]
           idx == Lookup(altitude_index, position, altitudes)
       IN  IF idx >= Len(temperatures)
           THEN RaiseIndexError    \* temperatures[altitude_index] out of range
           ELSE LET acceleration == Acceleration(vehicle[1], temperatures[idx + 1], position)
                    upd == EulerUpdate(speed, position, acceleration, sim_args[1].dt)
                IN  /\ altitude_index' = idx
                    /\ speed' = upd[1]
                    /\ position' = upd[2]
                    /\ position_history' = Append(position_history, upd[2])
                    /\ speed_history' = Append(speed_history, upd[1])
                    /\ acceleration_history' = Append(acceleration_history, acceleration)
                    /\ time_history' = Append(time_history, t)
                    /\ k' = k + 1
                    /\ UNCHANGED <<pc, raised, ret, config, sim_args, altitudes,
                                   temperatures, time_points, first, completed_runs>>

\* lines 73-78
Return ==
    /\ pc = "loop"
    /\ k > Len(time_points)
    /\ LET result == [time |-> time_history,
                      position |-> position_history,
                      speed |-> speed_history,
                      acceleration |-> acceleration_history]
       IN  /\ ret' = [op |-> "simulate_motion", args |-> sim_args[1], value |-> result]
           /\ first' = IF first = << >>
                       THEN << [args |-> sim_args[1], value |-> result] >>
                       ELSE first
    /\ completed_runs' = IF completed_runs < 2 THEN completed_runs + 1 ELSE completed_runs
    /\ pc' = "idle"
    /\ DropLocals
    /\ UNCHANGED <<raised, config>>

\* ------------------------------------------------------------------------

Next ==
    \/ \E p \in PayloadGrams, h \in HeliumLiters, f \in FillVolumes, c \in ChamberSizes :
          Construct(p, h, f, c)
    \/ \E a \in AltitudesUm : CallPressure(a)
    \/ \E t \in TemperaturesC, a \in AltitudesUm : CallDensities(t, a)
    \/ \E t \in TemperaturesC, a \in AltitudesUm : CallLift(t, a)
    \/ \E c \in SimulateCalls : StartSimulate(c[1], c[2], c[3])
    \/ Step
    \/ Return

Spec == Init /\ [][Next]_vars

\* ------------------------------------------------------------------------
\* Properties

Returned == ret.op = "simulate_motion"

\* A loop iteration ran to its end (lines 43-71) in this step.
StepTaken == pc = "loop" /\ pc' = "loop" /\ k' = k + 1

Last(seq) == seq[Len(seq)]

\* C1, as stated: on a non-empty table simulate_motion returns exactly
\* floor(total_time/dt) points.
C1_FloorLength ==
    (Returned /\ ret.args.table # << >>) =>
        Len(ret.value.time) = ret.args.total_time \div ret.args.dt

\* C1, amended: on a non-empty table simulate_motion returns exactly
\* ceil(total_time/dt) points, the same number in each of the four lists: the
\* least n with n*dt >= total_time.
C1_CeilLength ==
    (Returned /\ ret.args.table # << >>) =>
        LET n == Len(ret.value.time)
            T == ret.args.total_time
            d == ret.args.dt
        IN  /\ n * d >= T
            /\ n > 0 => (n - 1) * d < T
            /\ Len(ret.value.position) = n
            /\ Len(ret.value.speed) = n
            /\ Len(ret.value.acceleration) = n

\* C1 witness: a returned run whose total_time is no multiple of dt.
C1_Witness ==
    /\ Returned
    /\ ret.args.table # << >>
    /\ ret.args.total_time % ret.args.dt # 0
    /\ Len(ret.value.time) = ret.args.total_time \div ret.args.dt + 1

\* C2: in a returned trajectory time[0] = 0 and time[j] = j*dt, so the times
\* increase by exactly dt; total_time = 10 s at dt = 0.1 s on a single-row
\* table gives exactly 100 points.
C2_TimeGrid ==
    Returned =>
        /\ \A j \in 1 .. Len(ret.value.time) :
              ret.value.time[j] = (j - 1) * ret.args.dt
        /\ \A j \in 2 .. Len(ret.value.time) :
              ret.value.time[j] - ret.value.time[j - 1] = ret.args.dt
        /\ (ret.args = [table |-> SingleRow, total_time |-> ExampleTotalTime,
                        dt |-> DefaultDt])
              => Len(ret.value.time) = 100

\* C2 witness: the run of 10 s at dt = 0.1 s on a single row has returned
\* 100 points starting at time 0.
C2_Witness ==
    /\ Returned
    /\ ret.args.table = SingleRow
    /\ ret.args.total_time = ExampleTotalTime
    /\ ret.args.dt = DefaultDt
    /\ Len(ret.value.time) = 100
    /\ ret.value.time[1] = 0
    /\ ret.value.time[100] = 99

\* C3: construction fails (ValueError, no object) exactly when the fill is
\* outside [0, chamber size]; fill 0 and fill = chamber size succeed,
\* chamber size + 1 and negative fills fail.
C3_ConstructionValidated ==
    ctor_args # << >> =>
        LET a == ctor_args[1]
            f == a.bladder_fill_volume
            c == a.VARIABLE_CHAMBER_SIZE
            failedCtor == vehicle = << >> /\ pc = "failed" /\ raised = "ValueError"
            builtCtor  == vehicle # << >> /\ pc # "failed"
        IN  /\ failedCtor \/ builtCtor
            /\ failedCtor <=> (f < 0 \/ f > c)
            /\ f = 0 => builtCtor
            /\ f = c => builtCtor
            /\ f = c + 1 => failedCtor
            /\ f < 0 => failedCtor

\* C3 witness: a construction with fill = chamber size + 1 has failed.
C3_Witness ==
    /\ ctor_args # << >>
    /\ ctor_args[1].bladder_fill_volume = ctor_args[1].VARIABLE_CHAMBER_SIZE + 1
    /\ pc = "failed"
    /\ vehicle = << >>

\* C4, as stated: for every total_time and dt a call with an empty table
\* fails and never produces a trajectory, not even an empty one.
C4_EmptyNeverReturns ==
    ~(Returned /\ ret.args.table = << >>)

\* C4, amended: a call with an empty table and total_time > 0 fails with the
\* index error of the first temperature read, in the first iteration, before
\* any point is recorded and without returning a trajectory; with
\* total_time <= 0 no iteration runs and the empty trajectory is returned.
C4_EmptyFailsAtFirstRead ==
    [][(pc = "loop" /\ sim_args[1].table = << >>) =>
          /\ k = 1
          /\ time_history = << >> /\ position_history = << >>
          /\ speed_history = << >> /\ acceleration_history = << >>
          /\ pc' = "idle"
          /\ IF sim_args[1].total_time > 0
             THEN raised' = "IndexError" /\ ret' = NoRet
             ELSE /\ raised' = "none"
                  /\ ret' = [op |-> "simulate_motion", args |-> sim_args[1],
                             value |-> [time |-> << >>, position |-> << >>,
                                        speed |-> << >>, acceleration |-> << >>]]
      ]_vars

\* C4 witness: a call has just failed with the index error, nothing returned.
C4_Witness ==
    pc = "idle" /\ raised = "IndexError" /\ ret = NoRet

\* C5: a run with the same table, total_time and dt as the first run of the
\* same object returns the same trajectory, whatever ran in between.
C5_Deterministic ==
    (first # << >> /\ Returned /\ ret.args = first[1].args) =>
        ret.value = first[1].value

\* C5 witness: a later run has repeated the first run's arguments, with
\* several points in the trajectory.
C5_Witness ==
    /\ completed_runs = 2
    /\ Returned
    /\ ret.args = first[1].args
    /\ Len(ret.value.time) > 1
    /\ ret.value = first[1].value

\* C6: once constructed, the object keeps 0 <= fill <= chamber size and all
\* four fields as constructed, through every call.
C6_ConfigUnchanged ==
    vehicle # << >> =>
        LET a == ctor_args[1]
            self == vehicle[1]
        IN  /\ 0 <= self.bladder_fill_volume
            /\ self.bladder_fill_volume <= self.VARIABLE_CHAMBER_SIZE
            /\ self.payload_kg = a.payload_grams * 10^6
            /\ self.main_helium_volume = a.helium_liters
            /\ self.VARIABLE_CHAMBER_SIZE = a.VARIABLE_CHAMBER_SIZE
            /\ self.bladder_fill_volume = a.bladder_fill_volume

\* C6 witness: runs have completed and a lift call has returned since.
C6_Witness ==
    /\ vehicle # << >>
    /\ completed_runs = 2
    /\ ret.op = "calculate_lift"

PayloadAlternatives == {0, 1, 51, 52, 53, 60, 100} \cup PayloadGrams

\* C7: at the same temperature and altitude, a vehicle with a payload at
\* least as large and a fill at least as large has no larger net lift.
C7_LiftMonotone ==
    ret.op = "calculate_lift" =>
        \A p \in PayloadAlternatives, f \in 0 .. vehicle[1].VARIABLE_CHAMBER_SIZE :
            (p * 10^6 >= vehicle[1].payload_kg /\ f >= vehicle[1].bladder_fill_volume) =>
                calculate_lift([vehicle[1] EXCEPT !.payload_kg = p * 10^6,
                                                  !.bladder_fill_volume = f],
                               ret.temperature_c, ret.altitude)[1]
                    <= ret.value[1]

\* C7 witness: a lift has been computed for an empty bladder, and both a
\* full bladder and a heavier payload give strictly less.
C7_Witness ==
    /\ ret.op = "calculate_lift"
    /\ vehicle[1].bladder_fill_volume = 0
    /\ calculate_lift([vehicle[1] EXCEPT !.bladder_fill_volume = @ + 1],
                      ret.temperature_c, ret.altitude)[1] < ret.value[1]
    /\ calculate_lift([vehicle[1] EXCEPT !.payload_kg = @ + 10^6],
                      ret.temperature_c, ret.altitude)[1] < ret.value[1]

\* C8, as stated: the index at which a step reads the temperature is the
\* last one or has position < altitude[index + 1].
C8_LookupScansToThreshold ==
    [][StepTaken =>
          \/ altitude_index' = Len(altitudes) - 1
          \/ position < altitudes[altitude_index' + 2]
      ]_vars

\* C8, amended: a step advances the index at most once, by one exactly when
\* it is not the last index and position >= altitude[index + 1], and reads
\* the temperature at the resulting index.
C8_LookupAdvancesOnce ==
    [][StepTaken =>
          /\ altitude_index' =
                IF altitude_index # Len(altitudes) - 1
                   /\ position >= altitudes[altitude_index + 2]
                THEN altitude_index + 1
                ELSE altitude_index
          /\ Last(acceleration_history') =
                Acceleration(vehicle[1], temperatures[altitude_index' + 1], position)
      ]_vars

\* C8 witness: the last step read the temperature at index 1 of three while
\* the position it started from had already reached altitude[2].
C8_Witness ==
    /\ pc = "loop"
    /\ Len(altitudes) = 3
    /\ altitude_index = 1
    /\ Len(position_history) = 2
    /\ position_history[1] >= altitudes[3]

\* C9: in a run the index starts at 0, never decreases from step to step and
\* on a non-empty table stays within [0, number of rows - 1].
C9_IndexMonotoneInBounds ==
    [][/\ (pc # "loop" /\ pc' = "loop") => altitude_index' = 0
       /\ (pc = "loop" /\ pc' = "loop") => altitude_index' >= altitude_index
       /\ (pc' = "loop" /\ altitudes' # << >>) =>
             (0 <= altitude_index' /\ altitude_index' <= Len(altitudes') - 1)
      ]_vars

\* C9 witness: the position has fallen back below the threshold of the
\* current index, which stays advanced.
C9_Witness ==
    /\ pc = "loop"
    /\ altitude_index >= 1
    /\ position < altitudes[altitude_index + 1]
    /\ \E j \in 1 .. Len(position_history) :
          position_history[j] >= altitudes[altitude_index + 1]

\* C10: each step first adds acceleration*dt to the speed, then adds the new
\* speed times dt to the position, and records the new position and speed;
\* the acceleration is the net lift at the old position over the inertial
\* mass; the first step starts from position 0 and speed 0.
C10_SpeedBeforePosition ==
    [][StepTaken =>
          LET self == vehicle[1]
              T  == temperatures[altitude_index' + 1]
              dt == sim_args[1].dt
              inertial == self.payload_kg
                            + self.main_helium_volume * calculate_densities(T, position)[2]
              a  == MulDiv(calculate_lift(self, T, position)[1], 10^6, inertial)
          IN  /\ k = 1 => (position = 0 /\ speed = 0)
              /\ Last(acceleration_history') = a
              /\ speed' = speed + MulDiv(a, dt, TicksPerSecond)
              /\ position' = position + MulDiv(speed', dt, TicksPerSecond)
              /\ Last(speed_history') = speed'
              /\ Last(position_history') = position'
              /\ Len(position_history') = k /\ Len(speed_history') = k
      ]_vars

\* C10 witness: after two steps the second point's position is the first
\* one's plus the second speed times dt, which the first speed would not give.
C10_Witness ==
    /\ pc = "loop"
    /\ Len(position_history) = 2
    /\ position_history[2] = position_history[1]
          + MulDiv(speed_history[2], sim_args[1].dt, TicksPerSecond)
    /\ position_history[2] # position_history[1]
          + MulDiv(speed_history[1], sim_args[1].dt, TicksPerSecond)
====
